---- MODULE Spec2Model ----
(***************************************************************************)
(* Refresh-token rotation, theft detection and session revocation of       *)
(* services/auth_service.py (AuthService), over the users and              *)
(* refresh_tokens tables of models/.                                       *)
(*                                                                         *)
(* Every `with get_db_session()` block of the source is one database       *)
(* transaction (database/connection.py commits when the block is left and  *)
(* rolls back on an exception); a transaction is one atomic step here.     *)
(* register_user, authenticate and rotate_refresh_token run several        *)
(* transactions one after the other, so a call of theirs is in flight      *)
(* between its transactions and other calls interleave with it.            *)
(*                                                                         *)
(* Time is counted in days.  uuid4() and secrets.token_urlsafe(64) are     *)
(* fresh values, drawn from the counter nextTok.  The row object that      *)
(* verify_refresh_token returns is taken to carry the id it was loaded     *)
(* with when rotate_refresh_token reads it after the session has closed.   *)
(*                                                                         *)
(* Inside the transaction of register_user the SELECT of the pre-check and *)
(* the INSERT are two steps: under READ COMMITTED another registration can *)
(* commit between them, and the unique constraint on users.email decides.  *)
(* bcrypt hashes at most 72 bytes of a password; what a build does with a  *)
(* longer one depends on its bcrypt release (BcryptBuilds).                *)
(***************************************************************************)
EXTENDS Integers, FiniteSets, Sequences, TLC

VARIABLES users, tokens, now, nextTok, calls, last, rotated, loggedOut, env

vars == <<users, tokens, now, nextTok, calls, last, rotated, loggedOut, env>>

(* ---------------------------- bounds ---------------------------------- *)
MaxTokens == 3      \* refresh-token rows ever created
MaxNow == 8         \* last day of the clock

(* ------------------------ program constants --------------------------- *)
jwt_refresh_expiration_days == 7
jwt_access_expiration_minutes == 15
MinutesPerDay == 1440
SecondsPerMinute == 60
SecondsPerDay == 86400
MinPasswordLen == 8
\* bcrypt keys are at most 72 bytes long
BcryptMaxBytes == 72

NULL == -1

Names == {"alice", "bob"}
\* an email as typed: a name, either plain or upper-cased and padded with blanks
EmailInputs == {e \in [name : Names, upper : BOOLEAN, padded : BOOLEAN] : e.upper = e.padded}
Passwords == {"SecurePass123", "short"}
\* two passwords of 73 characters that differ in the last one only
LongPasswords ==
    {"SecurePass123-0123456789-0123456789-0123456789-0123456789-0123456789-012a",
     "SecurePass123-0123456789-0123456789-0123456789-0123456789-0123456789-012b"}
\* bcrypt.hashpw and bcrypt.checkpw given more than 72 bytes: releases before
\* 5.0 drop the rest of the password, later ones raise ValueError
BcryptBuilds == {"truncates", "rejects"}
DaysOld == {0, 1}
\* the clock jumps to the last day a token issued on day 0 is accepted, or past it
TickSteps == {jwt_refresh_expiration_days, jwt_refresh_expiration_days + 1}
UnknownToken == 0
\* bodies of a refresh request that carry no token string: a body that is not
\* parseable JSON, the object {}, an object with other fields only, and an
\* object whose refresh_token is a number
RequestBodies == {"not json", "empty object", "other fields", "number token"}

\* the request handlers that run at the same time, in the order they are taken
Slots == 1..2

(* ------------------------- pure functions ----------------------------- *)
\* email.lower().strip()
normalize(e) == [name |-> e.name, upper |-> FALSE, padded |-> FALSE]

\* the bytes of the password that bcrypt hashes
bcrypt_key(p) == IF Len(p) > BcryptMaxBytes THEN SubSeq(p, 1, BcryptMaxBytes) ELSE p
bcrypt_raises(p) == env.bcrypt = "rejects" /\ Len(p) > BcryptMaxBytes

\* bcrypt: one-way, checkpw succeeds exactly on the key that was hashed;
\* verify_password answers False when checkpw raises
hash_password(p) == <<"bcrypt", bcrypt_key(p)>>
verify_password(p, h) == ~bcrypt_raises(p) /\ h = hash_password(p)

\* a digest so short that different secrets share it
hash_token_short(t) == <<"sha256", t % 2>>

\* hashlib.sha256(token).hexdigest(); different secrets have different digests
hash_token(t) == <<"sha256", t>>

is_valid(r, n) == ~r.revoked /\ ~(n > r.expires_at)

NoRow == [id |-> 0, user_id |-> 0, token_hash |-> <<"sha256", UnknownToken>>,
          family_id |-> 0, expires_at |-> 0, revoked |-> TRUE,
          revoked_at |-> NULL, created_at |-> 0]

\* db.query(RefreshToken).filter(token_hash == ...).first()
first_by_hash(store, t) ==
    IF \E r \in store : r.token_hash = hash_token(t)
    THEN CHOOSE r \in store : r.token_hash = hash_token(t)
    ELSE NoRow

first_by_id(store, i) ==
    IF \E r \in store : r.id = i THEN CHOOSE r \in store : r.id = i ELSE NoRow

found(r) == r.id # 0


(* --------------------- refresh-token store operations ----------------- *)
\* mutant: the theft response revokes nothing
revoke_token_family_noop(store, f, n) == store

\* a build whose theft response closes every session of the family's owner
revoke_token_family_of_owner(store, f, n) ==
    {IF (\E q \in store : q.family_id = f /\ q.user_id = r.user_id) /\ ~r.revoked
        THEN [r EXCEPT !.revoked = TRUE, !.revoked_at = n] ELSE r : r \in store}

\* the UPDATE ... WHERE family_id = f AND revoked = false of the theft response
revoke_token_family(store, f, n) ==
    {IF r.family_id = f /\ ~r.revoked
        THEN [r EXCEPT !.revoked = TRUE, !.revoked_at = n] ELSE r : r \in store}

\* a build in which every token starts a family of its own
new_row_own_family(uid, fam, k, n) ==
    [id |-> k, user_id |-> uid, token_hash |-> hash_token(k),
     family_id |-> k,
     expires_at |-> n + jwt_refresh_expiration_days,
     revoked |-> FALSE, revoked_at |-> NULL, created_at |-> n]

\* a build in which the sessions of a user share one family
new_row_family_of_user(uid, fam, k, n) ==
    [id |-> k, user_id |-> uid, token_hash |-> hash_token(k),
     family_id |-> IF fam = 0 THEN uid ELSE fam,
     expires_at |-> n + jwt_refresh_expiration_days,
     revoked |-> FALSE, revoked_at |-> NULL, created_at |-> n]

\* the row inserted by create_refresh_token; k is the fresh secret and row id,
\* fam = 0 stands for family_id = None (a new family)
new_row(uid, fam, k, n) ==
    [id |-> k, user_id |-> uid, token_hash |-> hash_token(k),
     family_id |-> IF fam = 0 THEN k ELSE fam,
     expires_at |-> n + jwt_refresh_expiration_days,
     revoked |-> FALSE, revoked_at |-> NULL, created_at |-> n]

\* a build that keeps an account locked once one of its tokens was revoked
create_refresh_token_locking(store, uid, fam, k, n) ==
    store \cup {IF \E q \in store : q.user_id = uid /\ q.revoked
                THEN [new_row(uid, fam, k, n) EXCEPT !.revoked = TRUE, !.revoked_at = n]
                ELSE new_row(uid, fam, k, n)}

create_refresh_token(store, uid, fam, k, n) == store \cup {new_row(uid, fam, k, n)}

user_active(usrs, uid) == \E u \in usrs : u.id = uid /\ u.is_active

\* mutant: the revoked flag is not looked at
verify_refresh_token_ignoring_revoked(store, usrs, t, n) ==
    LET r == first_by_hash(store, t) IN
    IF ~found(r)
    THEN [valid |-> FALSE, message |-> "Invalid refresh token", row |-> 0, store |-> store]
    ELSE IF n > r.expires_at
    THEN [valid |-> FALSE, message |-> "Refresh token has expired", row |-> 0, store |-> store]
    ELSE IF ~user_active(usrs, r.user_id)
    THEN [valid |-> FALSE, message |-> "User account is disabled", row |-> 0, store |-> store]
    ELSE [valid |-> TRUE, message |-> "Token is valid", row |-> r.id, store |-> store]

\* mutant: the expiry is not looked at
verify_refresh_token_ignoring_expiry(store, usrs, t, n) ==
    LET r == first_by_hash(store, t) IN
    IF ~found(r)
    THEN [valid |-> FALSE, message |-> "Invalid refresh token", row |-> 0, store |-> store]
    ELSE IF r.revoked
    THEN [valid |-> FALSE, message |-> "Token has been revoked. Please login again.",
          row |-> 0, store |-> revoke_token_family(store, r.family_id, n)]
    ELSE IF ~user_active(usrs, r.user_id)
    THEN [valid |-> FALSE, message |-> "User account is disabled", row |-> 0, store |-> store]
    ELSE [valid |-> TRUE, message |-> "Token is valid", row |-> r.id, store |-> store]

\* a build with sliding sessions: a valid presentation renews expires_at
verify_refresh_token_sliding(store, usrs, t, n) ==
    LET r == first_by_hash(store, t) IN
    IF ~found(r)
    THEN [valid |-> FALSE, message |-> "Invalid refresh token", row |-> 0, store |-> store]
    ELSE IF r.revoked
    THEN [valid |-> FALSE, message |-> "Token has been revoked. Please login again.",
          row |-> 0, store |-> revoke_token_family(store, r.family_id, n)]
    ELSE IF n > r.expires_at
    THEN [valid |-> FALSE, message |-> "Refresh token has expired", row |-> 0, store |-> store]
    ELSE IF ~user_active(usrs, r.user_id)
    THEN [valid |-> FALSE, message |-> "User account is disabled", row |-> 0, store |-> store]
    ELSE [valid |-> TRUE, message |-> "Token is valid", row |-> r.id,
          store |-> (store \ {r})
                      \cup {[r EXCEPT !.expires_at = n + jwt_refresh_expiration_days]}]

\* a build that stores the expiry it detects as a revoked flag
verify_refresh_token_marking_expired(store, usrs, t, n) ==
    LET r == first_by_hash(store, t) IN
    IF ~found(r)
    THEN [valid |-> FALSE, message |-> "Invalid refresh token", row |-> 0, store |-> store]
    ELSE IF r.revoked
    THEN [valid |-> FALSE, message |-> "Token has been revoked. Please login again.",
          row |-> 0, store |-> revoke_token_family(store, r.family_id, n)]
    ELSE IF n > r.expires_at
    THEN [valid |-> FALSE, message |-> "Refresh token has expired", row |-> 0,
          store |-> (store \ {r}) \cup {[r EXCEPT !.revoked = TRUE, !.revoked_at = n]}]
    ELSE IF ~user_active(usrs, r.user_id)
    THEN [valid |-> FALSE, message |-> "User account is disabled", row |-> 0, store |-> store]
    ELSE [valid |-> TRUE, message |-> "Token is valid", row |-> r.id, store |-> store]

\* a build that looks at the expiry before the revoked flag
verify_refresh_token_expiry_first(store, usrs, t, n) ==
    LET r == first_by_hash(store, t) IN
    IF ~found(r)
    THEN [valid |-> FALSE, message |-> "Invalid refresh token", row |-> 0, store |-> store]
    ELSE IF n > r.expires_at
    THEN [valid |-> FALSE, message |-> "Refresh token has expired", row |-> 0, store |-> store]
    ELSE IF r.revoked
    THEN [valid |-> FALSE, message |-> "Token has been revoked. Please login again.",
          row |-> 0, store |-> revoke_token_family(store, r.family_id, n)]
    ELSE IF ~user_active(usrs, r.user_id)
    THEN [valid |-> FALSE, message |-> "User account is disabled", row |-> 0, store |-> store]
    ELSE [valid |-> TRUE, message |-> "Token is valid", row |-> r.id, store |-> store]

\* verify_refresh_token: the outcome and the store its transaction commits
verify_refresh_token(store, usrs, t, n) ==
    LET r == first_by_hash(store, t) IN
    IF ~found(r)
    THEN [valid |-> FALSE, message |-> "Invalid refresh token", row |-> 0, store |-> store]
    ELSE IF r.revoked
    THEN [valid |-> FALSE, message |-> "Token has been revoked. Please login again.",
          row |-> 0, store |-> revoke_token_family(store, r.family_id, n)]
    ELSE IF n > r.expires_at
    THEN [valid |-> FALSE, message |-> "Refresh token has expired", row |-> 0, store |-> store]
    ELSE IF ~user_active(usrs, r.user_id)
    THEN [valid |-> FALSE, message |-> "User account is disabled", row |-> 0, store |-> store]
    ELSE [valid |-> TRUE, message |-> "Token is valid", row |-> r.id, store |-> store]

\* a build whose rotation sets the flag and leaves revoked_at alone
revoke_old_unstamped(store, i, n) ==
    {IF r.id = i THEN [r EXCEPT !.revoked = TRUE] ELSE r : r \in store}

\* the second transaction of rotate_refresh_token: re-fetch by id and revoke
revoke_old(store, i, n) ==
    {IF r.id = i THEN [r EXCEPT !.revoked = TRUE, !.revoked_at = n] ELSE r : r \in store}

\* mutant: an already revoked token is revoked again, with a new revoked_at
revoke_refresh_token_restamping(store, t, n) ==
    LET r == first_by_hash(store, t) IN
    IF ~found(r)
    THEN [ok |-> FALSE, message |-> "Token not found", store |-> store]
    ELSE [ok |-> TRUE, message |-> "Token revoked successfully",
          store |-> (store \ {r}) \cup {[r EXCEPT !.revoked = TRUE, !.revoked_at = n]}]

\* mutant: logout revokes every token of the token's owner
revoke_refresh_token_user_wide(store, t, n) ==
    LET r == first_by_hash(store, t) IN
    IF ~found(r)
    THEN [ok |-> FALSE, message |-> "Token not found", store |-> store]
    ELSE IF r.revoked
    THEN [ok |-> TRUE, message |-> "Token already revoked", store |-> store]
    ELSE [ok |-> TRUE, message |-> "Token revoked successfully",
          store |-> {IF x.user_id = r.user_id /\ ~x.revoked
                        THEN [x EXCEPT !.revoked = TRUE, !.revoked_at = n] ELSE x
                     : x \in store}]

\* mutant: logout reports success and writes nothing
revoke_refresh_token_forgetful(store, t, n) ==
    LET r == first_by_hash(store, t) IN
    IF ~found(r)
    THEN [ok |-> FALSE, message |-> "Token not found", store |-> store]
    ELSE [ok |-> TRUE, message |-> "Token revoked successfully", store |-> store]

revoke_refresh_token(store, t, n) ==
    LET r == first_by_hash(store, t) IN
    IF ~found(r)
    THEN [ok |-> FALSE, message |-> "Token not found", store |-> store]
    ELSE IF r.revoked
    THEN [ok |-> TRUE, message |-> "Token already revoked", store |-> store]
    ELSE [ok |-> TRUE, message |-> "Token revoked successfully",
          store |-> (store \ {r}) \cup {[r EXCEPT !.revoked = TRUE, !.revoked_at = n]}]

\* mutant: the user_id filter is missing
revoke_all_user_tokens_of_everyone(store, uid, n) ==
    LET hit == {r \in store : ~r.revoked} IN
    [ok |-> TRUE, count |-> Cardinality(hit),
     store |-> {IF r \in hit THEN [r EXCEPT !.revoked = TRUE, !.revoked_at = n] ELSE r
                : r \in store}]

\* a build whose UPDATE does not filter on revoked = false
revoke_all_user_tokens_again(store, uid, n) ==
    LET hit == {r \in store : r.user_id = uid} IN
    [ok |-> TRUE, count |-> Cardinality(hit),
     store |-> {IF r \in hit THEN [r EXCEPT !.revoked = TRUE, !.revoked_at = n] ELSE r
                : r \in store}]

revoke_all_user_tokens(store, uid, n) ==
    LET hit == {r \in store : r.user_id = uid /\ ~r.revoked} IN
    [ok |-> TRUE, count |-> Cardinality(hit),
     store |-> {IF r \in hit THEN [r EXCEPT !.revoked = TRUE, !.revoked_at = n] ELSE r
                : r \in store}]

\* a build that also purges rows created exactly at the cutoff
cleanup_expired_tokens_at_cutoff(store, days_old, n) ==
    LET cutoff == n - days_old
        gone == {r \in store : r.created_at <= cutoff /\ (r.revoked \/ r.expires_at < n)}
    IN [count |-> Cardinality(gone), store |-> store \ gone]

\* the DELETE ... WHERE created_at < cutoff AND (revoked OR expires_at < now)
cleanup_expired_tokens(store, days_old, n) ==
    LET cutoff == n - days_old
        gone == {r \in store : r.created_at < cutoff /\ (r.revoked \/ r.expires_at < n)}
    IN [count |-> Cardinality(gone), store |-> store \ gone]

(* --------------------------- access tokens ---------------------------- *)
\* create_access_token: the JWT payload, times in minutes, and the key of
\* its signature
create_access_token(uid, n) ==
    [sub |-> uid, iat |-> n * MinutesPerDay,
     exp |-> n * MinutesPerDay + jwt_access_expiration_minutes, key |-> "server"]

NoToken == [sub |-> 0, iat |-> 0, exp |-> 0, key |-> "none"]
NoHeader == [scheme |-> "", token |-> NoToken]

\* get_token_from_header: the second part of 'Bearer <token>', or None
get_token_from_header(h) == IF h.scheme = "Bearer" THEN h.token ELSE NoToken

\* a build that does not verify exp
decode_token_ignoring_exp(tok, n) == IF tok.key = "server" THEN tok ELSE NoToken

\* decode_token: jwt.decode under the server secret, or None
decode_token(tok, n) ==
    IF tok.key = "server" /\ tok.exp > n * MinutesPerDay THEN tok ELSE NoToken

\* require_auth: the 401 of the wrapper, or the user the handler runs for
\* a build whose gate also asks for an open session of the token's user
require_auth_with_session(h, n) ==
    LET token == get_token_from_header(h)
        payload == decode_token(token, n)
    IN IF token = NoToken
       THEN [status |-> 401, code |-> "AUTH_REQUIRED", user |-> 0]
       ELSE IF payload = NoToken \/ ~\E r \in tokens : r.user_id = payload.sub /\ ~r.revoked
       THEN [status |-> 401, code |-> "INVALID_TOKEN", user |-> 0]
       ELSE [status |-> 200, code |-> "", user |-> payload.sub]

require_auth(h, n) ==
    LET token == get_token_from_header(h)
        payload == decode_token(token, n)
    IN IF token = NoToken
       THEN [status |-> 401, code |-> "AUTH_REQUIRED", user |-> 0]
       ELSE IF payload = NoToken
       THEN [status |-> 401, code |-> "INVALID_TOKEN", user |-> 0]
       ELSE [status |-> 200, code |-> "", user |-> payload.sub]

\* a build that reports the access lifetime in minutes
token_data_in_minutes ==
    [token_type |-> "bearer",
     access_token_expires_in |-> jwt_access_expiration_minutes,
     refresh_token_expires_in |-> jwt_refresh_expiration_days * SecondsPerDay]

\* the lifetimes in the data of a successful register, authenticate and rotate
token_data ==
    [token_type |-> "bearer",
     access_token_expires_in |-> jwt_access_expiration_minutes * SecondsPerMinute,
     refresh_token_expires_in |-> jwt_refresh_expiration_days * SecondsPerDay]

\* data = None of a failure
NoData == [token_type |-> "", access_token_expires_in |-> 0, refresh_token_expires_in |-> 0]

(* ------------------------------ state --------------------------------- *)
Idle == [op |-> "none", pc |-> "idle", tok |-> 0, row |-> 0, user |-> 0, family |-> 0,
         stale |-> FALSE, out |-> FALSE, gate |-> FALSE, email |-> <<>>, password |-> ""]

NoEvent == [op |-> "none", pc |-> "idle", tok |-> 0, user |-> 0, ok |-> FALSE,
            message |-> "", count |-> 0, before |-> {}, new |-> 0,
            stale |-> FALSE, out |-> FALSE, gate |-> FALSE, prevSame |-> FALSE,
            at |-> 0, cause |-> "", email |-> <<>>, days |-> 0,
            status |-> 0, code |-> "", header |-> NoHeader, data |-> NoData]

\* the operations whose returns are recorded in last
Ops == {"register", "authenticate", "rotate", "crash", "logout", "logout_all",
        "cleanup", "deactivate", "refresh", "verify", "logout_all_request"}

Log(ev) == IF ev.op \in env.obs THEN ev ELSE NoEvent

\* env never changes: the operations observed, the people who sign up, whether
\* the histories rotated and loggedOut are kept, the slots that serve calls,
\* the passwords that are typed and the bcrypt release of the build
StartWith(observed, names, history, workers, passwords, builds) ==
    /\ \E b \in builds :
          env = [obs |-> observed, names |-> names, history |-> history,
                 workers |-> workers, passwords |-> passwords, bcrypt |-> b]
    /\ users = {}
    /\ tokens = {}
    /\ now = 0
    /\ nextTok = 1
    /\ calls = [c \in Slots |-> Idle]
    /\ last = NoEvent
    /\ rotated = {}
    /\ loggedOut = {}

\* with passwords of at most 72 bytes every bcrypt release behaves alike
Start(observed, names, history, workers) ==
    StartWith(observed, names, history, workers, Passwords, {"truncates"})

Init == Start({"rotate", "crash"}, {"alice"}, FALSE, Slots)

InFlight == {c \in Slots : calls[c].pc # "idle"}

\* the lowest idle slot, as long as the rows the calls in flight will still
\* insert stay within MaxTokens
free(c) ==
    /\ calls[c].pc = "idle"
    /\ \A d \in Slots : d < c => calls[d].pc # "idle"
    /\ nextTok + Cardinality(InFlight) <= MaxTokens

Presentable == 0..(nextTok - 1)
UserIds == 1..(Cardinality(users) + 1)

(* -------------------------- registration ------------------------------ *)
\* db.add(user); db.flush() under the unique constraint on users.email
\* (models/user.py): a second row with the email raises IntegrityError.
\* A build without the constraint:
insert_user_unconstrained(usrs, email, p) ==
    [ok |-> TRUE,
     id |-> Cardinality(usrs) + 1,
     users |-> usrs \cup {[id |-> Cardinality(usrs) + 1, email |-> email,
                           password_hash |-> hash_password(p), is_active |-> TRUE,
                           given |-> p]}]

\* given is not a column: it remembers the password the row was registered with
insert_user(usrs, email, p) ==
    IF \E u \in usrs : u.email = email
    THEN [ok |-> FALSE, id |-> 0, users |-> usrs]
    ELSE [ok |-> TRUE,
          id |-> Cardinality(usrs) + 1,
          users |-> usrs \cup {[id |-> Cardinality(usrs) + 1, email |-> email,
                                password_hash |-> hash_password(p), is_active |-> TRUE,
                                given |-> p]}]

\* a build without the length check of lines 426-427
too_short_never(p) == FALSE

\* len(password) < 8
too_short(p) == Len(p) < MinPasswordLen

\* register_user, lines 424-433: normalisation, the length check and the
\* SELECT of the application-level pre-check
Register(e, p) ==
    LET email == normalize(e) IN
    /\ UNCHANGED <<users, tokens, now, nextTok, rotated, loggedOut, env>>
    /\ IF too_short(p)
       THEN /\ last' = Log([NoEvent EXCEPT !.op = "register", !.pc = "check",
                          !.message = "Password must be at least 8 characters",
                          !.cause = "weak password", !.email = email,
                          !.before = tokens])
            /\ UNCHANGED calls
       ELSE IF \E u \in users : u.email = email
       THEN /\ last' = Log([NoEvent EXCEPT !.op = "register", !.pc = "check",
                          !.message = "Email already registered",
                          !.cause = "email taken", !.email = email,
                          !.before = tokens])
            /\ UNCHANGED calls
       ELSE IF bcrypt_raises(p)
       THEN /\ last' = Log([NoEvent EXCEPT !.op = "register", !.pc = "check",
                          !.message = "Registration failed",
                          !.cause = "password too long", !.email = email,
                          !.before = tokens])
            /\ UNCHANGED calls
       ELSE \E c \in env.workers :
            /\ free(c)
            /\ calls' = [calls EXCEPT ![c] = [Idle EXCEPT !.op = "register",
                            !.pc = "insert", !.email = email, !.password = p]]
            /\ last' = NoEvent

\* lines 435-440: the INSERT of the same transaction and its commit; other
\* transactions may have committed since the SELECT (READ COMMITTED), and
\* IntegrityError is answered at 467-469
RegisterInsert(c) ==
    LET res == insert_user(users, calls[c].email, calls[c].password) IN
    /\ calls[c].op = "register"
    /\ calls[c].pc = "insert"
    /\ users' = res.users
    /\ UNCHANGED <<tokens, now, nextTok, rotated, loggedOut, env>>
    /\ IF ~res.ok
       THEN /\ calls' = [calls EXCEPT ![c] = Idle]
            /\ last' = Log([NoEvent EXCEPT !.op = "register", !.pc = "insert",
                          !.message = "Email already registered",
                          !.cause = "email taken", !.email = calls[c].email,
                          !.before = tokens])
       ELSE /\ calls' = [calls EXCEPT ![c].pc = "create", ![c].user = res.id]
            /\ last' = NoEvent

\* a build that tells an unknown email from a wrong password
authenticate_check_telling(usrs, email, p) ==
    LET u == IF \E x \in usrs : x.email = email
             THEN CHOOSE x \in usrs : x.email = email
             ELSE [id |-> 0, email |-> email, password_hash |-> <<>>, is_active |-> FALSE,
                   given |-> ""]
    IN IF u.id = 0
       THEN [ok |-> FALSE, message |-> "User not found", user |-> 0,
             cause |-> "unknown user"]
       ELSE IF ~u.is_active
       THEN [ok |-> FALSE, message |-> "Account is disabled", user |-> u.id,
             cause |-> "disabled account"]
       ELSE IF ~verify_password(p, u.password_hash)
       THEN [ok |-> FALSE, message |-> "Invalid email or password", user |-> u.id,
             cause |-> "wrong password"]
       ELSE [ok |-> TRUE, message |-> "Login successful", user |-> u.id, cause |-> ""]

\* authenticate, lines 497-515: the lookup transaction.  cause is what the
\* log tells apart, user the row that was found
authenticate_check(usrs, email, p) ==
    LET u == IF \E x \in usrs : x.email = email
             THEN CHOOSE x \in usrs : x.email = email
             ELSE [id |-> 0, email |-> email, password_hash |-> <<>>, is_active |-> FALSE,
                   given |-> ""]
    IN IF u.id = 0
       THEN [ok |-> FALSE, message |-> "Invalid email or password", user |-> 0,
             cause |-> "unknown user"]
       ELSE IF ~u.is_active
       THEN [ok |-> FALSE, message |-> "Account is disabled", user |-> u.id,
             cause |-> "disabled account"]
       ELSE IF ~verify_password(p, u.password_hash)
       THEN [ok |-> FALSE, message |-> "Invalid email or password", user |-> u.id,
             cause |-> "wrong password"]
       ELSE [ok |-> TRUE, message |-> "Login successful", user |-> u.id, cause |-> ""]

\* authenticate up to the end of its lookup transaction (lines 497-515)
Authenticate(e, p) ==
    LET res == authenticate_check(users, normalize(e), p)
        \* an active account of this email was registered with this password
        entitled == \E u \in users :
                       u.email = normalize(e) /\ u.is_active /\ u.given = p
    IN
    /\ UNCHANGED <<users, tokens, now, nextTok, rotated, loggedOut, env>>
    /\ IF ~res.ok
       THEN /\ last' = Log([NoEvent EXCEPT !.op = "authenticate", !.pc = "check",
                          !.user = res.user, !.message = res.message,
                          !.cause = res.cause, !.email = normalize(e),
                          !.gate = entitled, !.before = tokens])
            /\ UNCHANGED calls
       ELSE \E c \in env.workers :
            /\ free(c)
            /\ calls' = [calls EXCEPT ![c] = [Idle EXCEPT !.op = "authenticate",
                            !.pc = "create", !.user = res.user,
                            !.email = normalize(e), !.gate = entitled]]
            /\ last' = NoEvent

\* the tail of register_user (442-465) and of authenticate (517-539):
\* create_refresh_token with a new family, then the success return
IssueFirstToken(c) ==
    /\ calls[c].pc = "create"
    /\ calls[c].op \in {"register", "authenticate"}
    /\ nextTok <= MaxTokens
    /\ tokens' = create_refresh_token(tokens, calls[c].user, 0, nextTok, now)
    /\ nextTok' = nextTok + 1
    /\ calls' = [calls EXCEPT ![c] = Idle]
    /\ last' = Log([NoEvent EXCEPT !.op = calls[c].op, !.user = calls[c].user, !.ok = TRUE,
                  !.message = IF calls[c].op = "register" THEN "Registration successful"
                                          ELSE "Login successful",
                  !.before = tokens, !.new = nextTok, !.email = calls[c].email,
                  !.gate = calls[c].gate, !.data = token_data])
    /\ UNCHANGED <<users, now, rotated, loggedOut, env>>


(* ----------------------------- rotation ------------------------------- *)
\* rotate_refresh_token, lines 220-224: the verify transaction; a failed
\* verification returns at once, a valid one leaves the call in flight
RotateVerify(t) ==
    LET v == verify_refresh_token(tokens, users, t, now)
        r == first_by_hash(tokens, t)
    IN
    /\ tokens' = v.store
    /\ UNCHANGED <<users, now, nextTok, rotated, loggedOut, env>>
    /\ IF ~v.valid
       THEN /\ last' = Log([NoEvent EXCEPT !.op = "rotate", !.pc = "verify", !.tok = t,
                          !.message = v.message, !.before = tokens,
                          !.stale = \E x \in rotated : x[1] = t,
                          !.out = t \in loggedOut])
            /\ UNCHANGED calls
       ELSE \E c \in env.workers :
            /\ free(c)
            /\ calls' = [calls EXCEPT ![c] = [Idle EXCEPT !.op = "rotate",
                            !.pc = "revoke", !.tok = t, !.row = v.row,
                            !.stale = \E x \in rotated : x[1] = t,
                            !.out = t \in loggedOut,
                            !.gate = /\ found(r)
                                     /\ is_valid(r, now)
                                     /\ user_active(users, r.user_id)]]
            /\ last' = NoEvent

\* an exception inside the verify transaction: it is rolled back and
\* verify_refresh_token returns "Token verification failed" (lines 197-199),
\* which rotate_refresh_token passes on; recorded as a return of "verify"
VerifyError(t) ==
    /\ last' = Log([NoEvent EXCEPT !.op = "verify", !.pc = "verify", !.tok = t,
                   !.message = "Token verification failed",
                   !.cause = "storage error", !.before = tokens])
    /\ UNCHANGED <<users, tokens, now, nextTok, calls, rotated, loggedOut, env>>

\* app.py refresh_token for a body without a token string.  get_json raises
\* BadRequest on a body that is not JSON and _hash_token raises AttributeError
\* on a token that is not a string (auth_service.py:161, outside every try of
\* the service); both end in the handler's except clause (lines 475-485)
refresh_request(body) ==
    IF body \in {"empty object", "other fields"}
    THEN [status |-> 400, message |-> "refresh_token is required",
          code |-> "INVALID_REQUEST"]
    ELSE [status |-> 500, message |-> "Token refresh failed", code |-> "INTERNAL_ERROR"]

RefreshRejected(body) ==
    LET res == refresh_request(body) IN
    /\ last' = Log([NoEvent EXCEPT !.op = "refresh", !.cause = body,
                   !.message = res.message, !.status = res.status,
                   !.code = res.code, !.before = tokens])
    /\ UNCHANGED <<users, tokens, now, nextTok, calls, rotated, loggedOut, env>>

\* lines 226-247: the second transaction re-fetches the row by id, marks it
\* revoked and reads the user; a missing row raises (AttributeError on None)
\* and the call returns "Token rotation failed"
RotateRevokeOld(c) ==
    LET r == first_by_id(tokens, calls[c].row) IN
    /\ calls[c].op = "rotate"
    /\ calls[c].pc = "revoke"
    /\ UNCHANGED <<users, now, nextTok, rotated, loggedOut, env>>
    /\ IF ~found(r)
       THEN /\ tokens' = tokens
            /\ calls' = [calls EXCEPT ![c] = Idle]
            /\ last' = Log([NoEvent EXCEPT !.op = "rotate", !.pc = "revoke",
                          !.tok = calls[c].tok, !.message = "Token rotation failed",
                          !.before = tokens, !.stale = calls[c].stale,
                          !.out = calls[c].out, !.gate = calls[c].gate])
       ELSE IF ~\E u \in users : u.id = r.user_id
       THEN /\ tokens' = revoke_old(tokens, calls[c].row, now)
            /\ calls' = [calls EXCEPT ![c] = Idle]
            /\ last' = Log([NoEvent EXCEPT !.op = "rotate", !.pc = "revoke",
                          !.tok = calls[c].tok, !.message = "User not found",
                          !.before = tokens, !.stale = calls[c].stale,
                          !.out = calls[c].out, !.gate = calls[c].gate])
       ELSE /\ tokens' = revoke_old(tokens, calls[c].row, now)
            /\ calls' = [calls EXCEPT ![c].pc = "create", ![c].user = r.user_id,
                                      ![c].family = r.family_id]
            /\ last' = NoEvent

\* lines 249-274: create_refresh_token in the same family (its own
\* transaction), then the success return
RotateCreateNew(c) ==
    /\ calls[c].op = "rotate"
    /\ calls[c].pc = "create"
    /\ nextTok <= MaxTokens
    /\ tokens' = create_refresh_token(tokens, calls[c].user, calls[c].family, nextTok, now)
    /\ nextTok' = nextTok + 1
    /\ rotated' = IF env.history THEN rotated \cup {<<calls[c].tok, nextTok>>} ELSE rotated
    /\ calls' = [calls EXCEPT ![c] = Idle]
    /\ last' = Log([NoEvent EXCEPT !.op = "rotate", !.pc = "create", !.tok = calls[c].tok,
                  !.user = calls[c].user, !.ok = TRUE,
                  !.message = "Token rotated successfully", !.before = tokens,
                  !.new = nextTok, !.stale = calls[c].stale, !.out = calls[c].out,
                  !.gate = calls[c].gate, !.data = token_data])
    /\ UNCHANGED <<users, now, loggedOut, env>>

\* an exception inside a transaction of a call in flight: get_db_session
\* rolls the transaction back and the except clause returns the failure
StorageError(c) ==
    /\ calls[c].pc # "idle"
    /\ calls' = [calls EXCEPT ![c] = Idle]
    /\ last' = Log([NoEvent EXCEPT !.op = calls[c].op, !.pc = calls[c].pc,
                  !.tok = calls[c].tok, !.user = calls[c].user,
                  !.email = calls[c].email, !.cause = "storage error",
                  !.message = CASE calls[c].op = "rotate" -> "Token rotation failed"
                                [] calls[c].op = "register" -> "Registration failed"
                                [] OTHER -> "Login failed",
                  !.before = tokens, !.stale = calls[c].stale, !.out = calls[c].out,
                  !.gate = calls[c].gate])
    /\ UNCHANGED <<users, tokens, now, nextTok, rotated, loggedOut, env>>

\* the process serving a call dies between two transactions: nothing is
\* returned and what was committed stays
Crash(c) ==
    /\ calls[c].pc # "idle"
    /\ calls' = [calls EXCEPT ![c] = Idle]
    /\ last' = Log([NoEvent EXCEPT !.op = "crash", !.pc = calls[c].pc, !.tok = calls[c].tok,
                  !.user = calls[c].user, !.message = calls[c].op, !.before = tokens])
    /\ UNCHANGED <<users, tokens, now, nextTok, rotated, loggedOut, env>>

(* ------------------------ logout and purge ---------------------------- *)
Logout(t) ==
    LET res == revoke_refresh_token(tokens, t, now) IN
    /\ tokens' = res.store
    /\ loggedOut' = IF res.ok /\ env.history THEN loggedOut \cup {t} ELSE loggedOut
    /\ last' = Log([NoEvent EXCEPT !.op = "logout", !.tok = t, !.ok = res.ok,
                  !.message = res.message, !.before = tokens,
                  !.prevSame = last.op = "logout" /\ last.tok = t /\ last.ok])
    /\ UNCHANGED <<users, now, nextTok, calls, rotated, env>>

LogoutAll(uid) ==
    LET res == revoke_all_user_tokens(tokens, uid, now) IN
    /\ tokens' = res.store
    /\ last' = Log([NoEvent EXCEPT !.op = "logout_all", !.user = uid, !.ok = res.ok,
                  !.message = "Revoked tokens", !.count = res.count, !.before = tokens,
                  !.at = now])
    /\ UNCHANGED <<users, now, nextTok, calls, rotated, loggedOut, env>>

\* the access tokens issued together with the refresh tokens of the store
Issued == {create_access_token(r.user_id, r.created_at) : r \in tokens}

\* Authorization headers: none, another scheme, a token that is not a JWT, a
\* token signed with another key, and issued tokens
Headers ==
    {NoHeader}
      \cup {[scheme |-> "Basic", token |-> a] : a \in Issued}
      \cup {[scheme |-> "Bearer", token |-> [NoToken EXCEPT !.key = "garbage"]]}
      \cup {[scheme |-> "Bearer", token |-> [a EXCEPT !.key = "attacker"]] : a \in Issued}
      \cup {[scheme |-> "Bearer", token |-> a] : a \in Issued}

\* POST /api/v1/auth/logout-all behind require_auth
LogoutAllRequest(h) ==
    LET auth == require_auth(h, now)
        res == revoke_all_user_tokens(tokens, auth.user, now)
    IN
    /\ UNCHANGED <<users, now, nextTok, calls, rotated, loggedOut, env>>
    /\ IF auth.status = 401
       THEN /\ tokens' = tokens
            /\ last' = Log([NoEvent EXCEPT !.op = "logout_all_request", !.header = h,
                           !.status = auth.status, !.code = auth.code,
                           !.before = tokens, !.at = now])
       ELSE /\ tokens' = res.store
            /\ last' = Log([NoEvent EXCEPT !.op = "logout_all_request", !.header = h,
                           !.user = auth.user, !.ok = res.ok, !.count = res.count,
                           !.status = IF res.ok THEN 200 ELSE 400,
                           !.before = tokens, !.at = now])

Cleanup(days_old) ==
    LET res == cleanup_expired_tokens(tokens, days_old, now) IN
    /\ tokens' = res.store
    /\ last' = Log([NoEvent EXCEPT !.op = "cleanup", !.ok = TRUE, !.count = res.count,
                  !.before = tokens, !.at = now, !.days = days_old])
    /\ UNCHANGED <<users, now, nextTok, calls, rotated, loggedOut, env>>

(* --------------------------- environment ------------------------------ *)
Tick(d) ==
    /\ now + d <= MaxNow
    /\ now' = now + d
    /\ UNCHANGED <<users, tokens, nextTok, calls, last, rotated, loggedOut, env>>

\* administrative deactivation: is_active set to false on the users table
Deactivate(uid) ==
    /\ \E u \in users : u.id = uid /\ u.is_active
    /\ users' = {IF u.id = uid THEN [u EXCEPT !.is_active = FALSE] ELSE u : u \in users}
    /\ last' = Log([NoEvent EXCEPT !.op = "deactivate", !.user = uid, !.before = tokens])
    /\ UNCHANGED <<tokens, now, nextTok, calls, rotated, loggedOut, env>>

Typed == {e \in EmailInputs : e.name \in env.names}

\* everything the service does, and the clock
Serve ==
    \/ \E e \in Typed, p \in env.passwords : Register(e, p)
    \/ \E c \in env.workers : RegisterInsert(c)
    \/ \E e \in Typed, p \in env.passwords : Authenticate(e, p)
    \/ \E c \in env.workers : IssueFirstToken(c)
    \/ \E t \in Presentable : RotateVerify(t)
    \/ \E t \in Presentable : VerifyError(t)
    \/ \E body \in RequestBodies : RefreshRejected(body)
    \/ \E c \in env.workers : RotateRevokeOld(c)
    \/ \E c \in env.workers : RotateCreateNew(c)
    \/ \E c \in env.workers : StorageError(c)
    \/ \E c \in env.workers : Crash(c)
    \/ \E t \in Presentable : Logout(t)
    \/ \E uid \in UserIds : LogoutAll(uid)
    \/ \E d \in DaysOld : Cleanup(d)
    \/ \E d \in TickSteps : Tick(d)

\* the administrator, and the endpoint behind require_auth
Administer == \E uid \in UserIds : Deactivate(uid)
Guarded == \E h \in Headers : LogoutAllRequest(h)

Next == Serve \/ Administer \/ Guarded

Spec == Init /\ [][Next]_vars

\* no administrator; the history of exchanges and logouts is kept and the
\* returns of rotate_refresh_token are observed
SpecRotate == Start({"rotate"}, {"alice"}, TRUE, Slots) /\ [][Serve]_vars

\* no administrator, observed at the returns of logout
SpecLogout == Start({"logout"}, {"alice"}, FALSE, Slots) /\ [][Serve]_vars

\* two people served by one worker, observed at the returns of logout-all
SpecLogoutAll == Start({"logout_all"}, Names, FALSE, {1}) /\ [][Serve]_vars

\* an administrator deactivates accounts; observed at the returns of authenticate
\* and some passwords are longer than 72 bytes
SpecLogin ==
    /\ StartWith({"authenticate"}, {"alice"}, FALSE, Slots,
                 Passwords \cup LongPasswords, BcryptBuilds)
    /\ [][Serve \/ Administer]_vars

\* no administrator, observed at the returns of register_user
SpecRegister == Start({"register"}, {"alice"}, FALSE, Slots) /\ [][Serve]_vars

\* two people who type their passwords right, served by one worker, observed
\* at the returns of register_user and of authenticate
SpecSessions ==
    /\ StartWith({"register", "authenticate"}, Names, FALSE, {1},
                 {"SecurePass123"}, {"truncates"})
    /\ [][Serve]_vars

\* no administrator, observed at the returns of cleanup_expired_tokens
SpecPurge == Start({"cleanup"}, {"alice"}, FALSE, Slots) /\ [][Serve]_vars

\* an administrator deactivates accounts; observed at the responses of the
\* refresh endpoint
SpecRefresh ==
    /\ Start({"refresh", "rotate", "verify"}, {"alice"}, FALSE, Slots)
    /\ [][Serve \/ Administer]_vars

\* observed at the responses of the logout-all endpoint
SpecGate == Start({"logout_all_request"}, {"alice"}, FALSE, Slots) /\ [][Next]_vars

(* ------------------------ external responses -------------------------- *)
\* app.py login, lines 359-371: the body and status of the login response
\* every successful issue of a token pair is observed
SpecLifetimes ==
    Start({"register", "authenticate", "rotate"}, {"alice"}, FALSE, Slots) /\ [][Serve]_vars

login_response(ok, message) ==
    IF ok THEN [status |-> 200, message |-> "Login successful", code |-> ""]
          ELSE [status |-> 401, message |-> message, code |-> "AUTH_FAILED"]

\* app.py refresh_token, lines 455-473
refresh_response(ok, message) ==
    IF ok THEN [status |-> 200, message |-> "Token refreshed successfully", code |-> ""]
          ELSE [status |-> 401, message |-> message, code |-> "REFRESH_FAILED"]


(* ============================== claims ================================= *)
\* C1, C2, C5 and C9 are read under SpecRotate, which keeps the histories;
\* C3, C4 and C10 under Spec, where an administrator deactivates accounts.
rotate_returned == last.op = "rotate"
presented == first_by_hash(last.before, last.tok)
ids(store) == {r.id : r \in store}

\* C1: single use.  A rotate_refresh_token(t) call that starts after a
\* rotate_refresh_token(t) call has returned success never returns success.
C1_SingleUse == (rotate_returned /\ last.stale) => ~last.ok

\* a rotation of an already exchanged token was refused at verification
C1_Witness == rotate_returned /\ last.stale /\ last.pc = "verify" /\ ~last.ok

\* C2: of the rotate_refresh_token calls made with the same refresh token,
\* concurrently or not, at most one returns success.
C2_AtMostOneWinner ==
    \A t \in Presentable : Cardinality({x \in rotated : x[1] = t}) <= 1

\* C3: every family_id has at most one refresh-token row with revoked = false.
C3_FamilyInvariant ==
    \A r1, r2 \in tokens :
        (r1.family_id = r2.family_id /\ ~r1.revoked /\ ~r2.revoked) => r1 = r2

\* C4: a rotate_refresh_token call that stops after its verification step
\* (process crash or storage error) never leaves the old token revoked by the
\* call with no successor, the family holding no unrevoked token.
rotate_stopped ==
    \/ last.op = "rotate" /\ ~last.ok /\ last.pc \in {"revoke", "create"}
    \/ last.op = "crash" /\ last.message = "rotate"

C4_RotationAtomic ==
    rotate_stopped =>
        ~(/\ last.pc = "create"
          /\ found(presented)
          /\ \A r \in tokens : r.family_id = presented.family_id => r.revoked)

\* C5: a rotate_refresh_token call presented with a token whose row is already
\* revoked returns failure, and when it returns every row of that row's family
\* is revoked (the successor of the earlier rotation included, which a
\* following rotation therefore finds revoked as well).
C5_ReuseCascade ==
    (rotate_returned /\ last.pc = "verify" /\ found(presented) /\ presented.revoked)
    => /\ ~last.ok
       /\ \A r \in tokens : r.family_id = presented.family_id => r.revoked

\* the cascade has hit the unrevoked successor that an earlier rotation issued
C5_Witness ==
    /\ rotate_returned /\ last.pc = "verify" /\ found(presented) /\ presented.revoked
    /\ \E x \in rotated :
          /\ x[1] = last.tok
          /\ \E r \in last.before : r.id = x[2] /\ ~r.revoked
    /\ \A r \in tokens : r.family_id = presented.family_id => r.revoked

\* C9: after revoke_refresh_token(t) has returned success, every
\* rotate_refresh_token(t) call that starts later returns failure and adds no
\* refresh-token row.
C9_LogoutTakesEffect ==
    (rotate_returned /\ last.out) => (~last.ok /\ ids(tokens) = ids(last.before))

\* a rotation of a logged-out token was refused
C9_Witness == rotate_returned /\ last.out /\ last.pc = "verify" /\ ~last.ok

\* C10: rotate_refresh_token returns success only if, when it verified the
\* token, the row existed, was unrevoked, had expires_at not earlier than the
\* current time, and its user existed with is_active = true.
C10_ValidityGate == (rotate_returned /\ last.ok) => last.gate

\* a token was exchanged on the last day of its life
C10_Witness ==
    /\ rotate_returned /\ last.ok /\ last.gate
    /\ found(presented) /\ presented.revoked_at = presented.expires_at

(* ---- observed at the returns of logout-all (SpecLogoutAll) ---- *)
logout_all_returned == last.op = "logout_all"
revoked_at(r, n) == [r EXCEPT !.revoked = TRUE, !.revoked_at = n]

\* C6 as stated: logout-all revokes exactly the rows of the user's active
\* (unrevoked, unexpired) sessions and returns their number.
C6_ActiveSessionCount ==
    logout_all_returned =>
        LET active == {r \in last.before : r.user_id = last.user /\ is_valid(r, last.at)}
        IN /\ last.count = Cardinality(active)
           /\ tokens = (last.before \ active) \cup {revoked_at(r, last.at) : r \in active}

\* C6 amended: logout-all revokes exactly the user's rows with revoked = false,
\* expired or not, returns their number with success, leaves every other row
\* as it was, and none of the revoked tokens verifies afterwards.
C6_UnrevokedCount ==
    logout_all_returned =>
        LET hit == {r \in last.before : r.user_id = last.user /\ ~r.revoked}
        IN /\ last.ok
           /\ last.count = Cardinality(hit)
           /\ tokens = (last.before \ hit) \cup {revoked_at(r, last.at) : r \in hit}
           /\ \A t \in Presentable :
                 first_by_hash(last.before, t) \in hit
                 => ~verify_refresh_token(tokens, users, t, now).valid

\* two sessions of one user were revoked, one of them already expired, while
\* another user held an unrevoked token
C6_Witness ==
    /\ logout_all_returned /\ last.count = 2
    /\ \E r \in last.before :
          r.user_id = last.user /\ ~r.revoked /\ last.at > r.expires_at
    /\ \E r \in tokens : r.user_id # last.user /\ ~r.revoked

(* ---- observed at the returns of logout (SpecLogout) ---- *)
logout_returned == last.op = "logout"

\* C7: revoke_refresh_token(t) returns success for a stored token t, and a
\* second revoke_refresh_token(t) right after a successful one returns success
\* and leaves the whole token store unchanged.
C7_LogoutIdempotent ==
    logout_returned =>
        /\ found(presented) => last.ok
        /\ last.prevSame => (last.ok /\ tokens = last.before)

\* the second of two consecutive logouts came on a later day than the first
C7_Witness ==
    /\ logout_returned /\ last.prevSame /\ found(presented)
    /\ presented.revoked /\ presented.revoked_at < now

\* C8: revoke_refresh_token(t) changes at most the row whose token_hash matches
\* t, and of that row only revoked and revoked_at; without a matching row it
\* returns the not-found failure and the store is unchanged.
C8_LogoutFrame ==
    logout_returned =>
        IF ~found(presented)
        THEN ~last.ok /\ last.message = "Token not found" /\ tokens = last.before
        ELSE \E r2 \in tokens :
                /\ tokens = (last.before \ {presented}) \cup {r2}
                /\ r2 = [presented EXCEPT !.revoked = r2.revoked,
                                          !.revoked_at = r2.revoked_at]

\* one session was logged out while the same user kept another unrevoked one
C8_Witness ==
    /\ logout_returned /\ last.ok /\ found(presented) /\ ~presented.revoked
    /\ \E r \in tokens :
          r.user_id = presented.user_id /\ r.id # presented.id /\ ~r.revoked

(* ---- observed at the returns of authenticate (SpecLogin) ---- *)
authenticate_returned == last.op = "authenticate"
\* the tuple (success, message, data) that authenticate returns
returned(ok, message, data) == <<ok, message, IF data THEN "tokens" ELSE "None">>

\* C11: a wrong password for an existing active user gets the same returned
\* tuple (success flag, message, no data) as any email that has no user row
\* gets in the same state.
C11_NoEnumeration ==
    (authenticate_returned /\ last.cause = "wrong password") =>
        \A e \in EmailInputs, p \in Passwords :
            LET res == authenticate_check(users, normalize(e), p) IN
            res.cause = "unknown user" =>
                returned(res.ok, res.message, FALSE)
                    = returned(last.ok, last.message, last.new # 0)

\* a wrong password was refused while another email had no account
C11_Witness ==
    /\ authenticate_returned /\ last.cause = "wrong password"
    /\ \E u \in users : u.id = last.user /\ u.is_active
    /\ \E e \in EmailInputs :
          authenticate_check(users, normalize(e), "short").cause = "unknown user"

\* C12: every failed authenticate call, the cause being an unknown user, a
\* wrong password or a disabled account, has the message "Invalid email or
\* password" in the login response.
C12_UniformFailure ==
    (authenticate_returned /\ ~last.ok
        /\ last.cause \in {"unknown user", "wrong password", "disabled account"})
    => login_response(last.ok, last.message).message = "Invalid email or password"

\* C13: the refresh response for a reused (already revoked) token is the
\* response a token that matches no row gets in the same state.
C13_TheftNotRevealed ==
    (rotate_returned /\ last.pc = "verify" /\ found(presented) /\ presented.revoked)
    => refresh_response(last.ok, last.message)
         = refresh_response(FALSE,
               verify_refresh_token(tokens, users, UnknownToken, now).message)

(* ---- observed at the returns of register_user (SpecRegister) ---- *)
register_returned == last.op = "register"

\* C14: no two user rows have the same normalized email; a register_user call
\* that returns success owns the only row with its email (rows are never
\* deleted, so no other call for the email has succeeded or will); and a call
\* that finds the email taken, at its pre-check or at its INSERT, returns the
\* email-already-registered failure and adds no user row.
C14_EmailUnique ==
    /\ \A u1, u2 \in users : u1.email = u2.email => u1 = u2
    /\ (register_returned /\ last.ok) =>
           /\ \E u \in users : u.id = last.user /\ u.email = last.email
           /\ \A u \in users : u.email = last.email => u.id = last.user
    /\ (register_returned /\ last.cause = "email taken") =>
           /\ ~last.ok /\ last.message = "Email already registered"
           /\ Cardinality({u \in users : u.email = last.email}) = 1

\* a call that passed the pre-check lost the race at its INSERT
C14_Witness ==
    /\ register_returned /\ last.pc = "insert" /\ last.cause = "email taken"
    /\ \E u \in users : u.email = last.email

\* C15: authenticate returns success if and only if, at its lookup, a user
\* row with the normalized email existed, was active, and the password was the
\* one given at registration; a disabled account is refused and gets no
\* refresh-token row.  (Returns after a storage error are left aside.)
C15_AuthenticationCorrect ==
    (authenticate_returned /\ last.cause # "storage error") =>
        /\ last.ok <=> last.gate
        /\ last.cause = "disabled account" => (~last.ok /\ tokens = last.before)

\* C16: register_user with a password shorter than 8 characters returns
\* failure without touching the store: the step that returns the failure
\* leaves users, refresh tokens and the calls in flight as they were, and no
\* user row is ever registered with such a password.
C16_WeakPasswordRejected ==
    /\ [](\A u \in users : Len(u.given) >= MinPasswordLen)
    /\ [][(last'.op = "register" /\ last'.cause = "weak password") =>
             /\ ~last'.ok
             /\ last'.message = "Password must be at least 8 characters"
             /\ UNCHANGED <<users, tokens, calls>>]_vars

\* a short password was refused for an email that has no account
C16_Witness ==
    /\ register_returned /\ last.cause = "weak password" /\ ~last.ok
    /\ ~\E u \in users : u.email = last.email
    /\ tokens = {}

(* ---- rotation lineage and families (Spec) ---- *)
\* C17: a successful rotate_refresh_token(t) adds exactly one row, with a new
\* id, unrevoked, of the family and the user of t's row, and returns a raw
\* token different from t; t's row is revoked when the call returns; the
\* call's revoke transaction changes t's row only (revoked, revoked_at) and
\* its verify transaction changes nothing.
C17_RotationLineage ==
    /\ []((rotate_returned /\ last.ok) =>
            /\ last.new # last.tok
            /\ \E r \in tokens :
                  /\ r.id \notin ids(last.before)
                  /\ tokens = last.before \cup {r}
                  /\ r.token_hash = hash_token(last.new)
                  /\ ~r.revoked
                  /\ found(presented) =>
                        /\ r.family_id = presented.family_id
                        /\ r.user_id = presented.user_id
                        /\ presented.revoked)
    /\ [][\A c \in Slots :
            /\ (calls[c].pc = "idle" /\ calls'[c].pc = "revoke") => tokens' = tokens
            /\ (calls[c].pc = "revoke" /\ calls'[c].pc = "create") =>
                  LET old == first_by_hash(tokens, calls[c].tok) IN
                  /\ found(old)
                  /\ tokens' = (tokens \ {old})
                                  \cup {[old EXCEPT !.revoked = TRUE, !.revoked_at = now]}]_vars

\* a token was exchanged while its owner held a second session
C17_Witness ==
    /\ rotate_returned /\ last.ok /\ found(presented) /\ presented.revoked
    /\ \E r \in tokens : r.user_id = presented.user_id
                          /\ r.family_id # presented.family_id /\ ~r.revoked

(* ---- observed where sessions begin (SpecSessions) ---- *)
session_begun == last.op \in {"register", "authenticate"} /\ last.ok

\* C18: every successful register_user or authenticate call adds exactly one
\* refresh-token row, of the user of the call and of a family that no row
\* present at the insertion belongs to; and in every state all rows of one
\* family have the same user_id.
C18_FreshFamily ==
    /\ session_begun =>
          \E r \in tokens :
             /\ r.id \notin ids(last.before)
             /\ tokens = last.before \cup {r}
             /\ r.token_hash = hash_token(last.new)
             /\ r.user_id = last.user
             /\ \A q \in last.before : q.family_id # r.family_id
    /\ \A r1, r2 \in tokens : r1.family_id = r2.family_id => r1.user_id = r2.user_id

\* a second login of a user whose first session has been rotated
C18_Witness ==
    /\ session_begun /\ last.op = "authenticate"
    /\ \E q1, q2 \in last.before :
          /\ q1.user_id = last.user /\ q2.user_id = last.user
          /\ q1.id # q2.id /\ q1.family_id = q2.family_id

\* C19: in every step, a refresh-token row that stays in the store keeps
\* revoked = true once it has it and keeps its expires_at, the clock does not
\* go back, and no row is given the id of an earlier row; so a token that is
\* not ACTIVE (unrevoked and unexpired) is not ACTIVE after the step either.
C19_TerminalStates ==
    [][/\ now' >= now
       /\ \A r \in tokens, r2 \in tokens' :
             r2.id = r.id =>
                /\ r.revoked => r2.revoked
                /\ r2.expires_at = r.expires_at
                /\ ~is_valid(r, now) => ~is_valid(r2, now')
       /\ \A r2 \in tokens' : r2.id \in ids(tokens) \/ r2.id >= nextTok]_vars

\* an expired token was presented and stays expired and unrevoked, next to a
\* revoked token of its family
C19_Witness ==
    /\ rotate_returned /\ last.message = "Refresh token has expired"
    /\ \E r \in tokens : r.token_hash = hash_token(last.tok)
                          /\ ~r.revoked /\ now > r.expires_at
                          /\ \E q \in tokens : q.family_id = r.family_id /\ q.revoked

\* C20: when rotate_refresh_token is presented with a revoked token of family
\* F, the theft response changes rows of family F only: every row of another
\* family, other sessions of the same user included, is as it was, no row is
\* added or deleted, and each token of another family verifies as it did.
C20_BoundedBlastRadius ==
    (rotate_returned /\ last.pc = "verify" /\ found(presented) /\ presented.revoked)
    => /\ ids(tokens) = ids(last.before)
       /\ \A r \in last.before : r.family_id # presented.family_id => r \in tokens
       /\ \A t \in Presentable :
             LET r == first_by_hash(last.before, t) IN
             (found(r) /\ r.family_id # presented.family_id) =>
                 verify_refresh_token(tokens, users, t, now).valid
                   = verify_refresh_token(last.before, users, t, now).valid

\* the cascade revoked the successor of the reused token while the same user
\* kept a valid token of another session
C20_Witness ==
    /\ rotate_returned /\ last.pc = "verify" /\ found(presented) /\ presented.revoked
    /\ \E r \in last.before : r.family_id = presented.family_id /\ ~r.revoked
    /\ \E t \in Presentable :
          LET r == first_by_hash(tokens, t) IN
          /\ found(r) /\ r.user_id = presented.user_id
          /\ r.family_id # presented.family_id
          /\ verify_refresh_token(tokens, users, t, now).valid

(* ---- observed at the returns of cleanup_expired_tokens (SpecPurge) ---- *)
cleanup_returned == last.op = "cleanup"

\* C21: cleanup_expired_tokens(days) adds and changes no row, deletes a row
\* only if it is revoked or expired and was created more than `days` days
\* before, so never an ACTIVE row and never one within the retention window,
\* and returns the number of rows it deleted.
C21_PurgeSafety ==
    cleanup_returned =>
        LET gone == last.before \ tokens IN
        /\ tokens \subseteq last.before
        /\ last.count = Cardinality(gone)
        /\ \A r \in gone :
              /\ r.revoked \/ r.expires_at < last.at
              /\ ~is_valid(r, last.at)
              /\ last.at - r.created_at > last.days

\* a purge deleted a revoked row and kept a revoked row created exactly
\* `days` days before
C21_Witness ==
    /\ cleanup_returned /\ last.count >= 1
    /\ \E r \in tokens : r.revoked /\ last.at - r.created_at = last.days

C23_RefreshOutcomes ==
    /\ (last.op = "refresh" /\ last.cause \in {"not json", "empty object", "other fields"})
          => (last.status = 400 /\ last.code = "INVALID_REQUEST"
              /\ tokens = last.before)
    /\ (last.op \in {"rotate", "verify"} /\ ~last.ok) =>
          /\ refresh_response(last.ok, last.message).status = 401
          /\ refresh_response(last.ok, last.message).code = "REFRESH_FAILED"

(* ---- observed at the responses of the logout-all endpoint (SpecGate) ---- *)
guarded_returned == last.op = "logout_all_request"
\* a Bearer token signed under the server secret with its expiry in the future
authentic(h, n) ==
    h.scheme = "Bearer" /\ h.token.key = "server" /\ h.token.exp > n * MinutesPerDay

\* C24: the logout-all handler runs only for a request whose Authorization
\* header carries a Bearer token signed under the server secret and not yet
\* expired, and then for the user of that token; any other request gets 401
\* and no row changes.
C24_AccessGate ==
    guarded_returned =>
        IF authentic(last.header, last.at)
        THEN last.status # 401 /\ last.user = last.header.token.sub
        ELSE last.status = 401 /\ tokens = last.before

\* an expired access token was refused while its user held an unrevoked
\* refresh token
C24_Witness ==
    /\ guarded_returned /\ last.status = 401
    /\ last.header.scheme = "Bearer" /\ last.header.token.key = "server"
    /\ \E r \in tokens : r.user_id = last.header.token.sub /\ ~r.revoked


\* C25: secret lookup.  In every reachable state no two refresh-token rows
\* share a token_hash, the token_hash column holds the SHA-256 digest of the
\* secret the row was created with and not the secret, and looking up a raw
\* secret returns the row created together with it (create_refresh_token
\* returns secret k together with row k) or no row at all, never the row of a
\* different secret.
C25_SecretLookup ==
    /\ \A r, q \in tokens : r.token_hash = q.token_hash => r = q
    /\ \A r \in tokens : r.token_hash = hash_token(r.id) /\ r.token_hash[1] = "sha256"
    /\ \A t \in Presentable :
          LET r == first_by_hash(tokens, t) IN
          IF \E q \in tokens : q.id = t THEN found(r) /\ r.id = t ELSE ~found(r)

\* three secrets have been issued, one by a rotation, and their rows are stored
C25_Witness ==
    /\ Cardinality(tokens) = MaxTokens
    /\ rotate_returned /\ last.ok
    /\ first_by_hash(tokens, last.new).id = last.new
    /\ first_by_hash(tokens, last.tok).id = last.tok


issue_returned == last.op \in {"register", "authenticate", "rotate"} /\ last.ok

\* C26: reported lifetimes.  Every successful register, authenticate and
\* rotate result reports access_token_expires_in = configured minutes * 60
\* (900) and refresh_token_expires_in = configured days * 86400 (604800), and
\* the row of the refresh token it issued has expires_at = the time of its
\* creation + the configured days, which is the reported refresh lifetime.
C26_ReportedLifetimes ==
    /\ [](issue_returned =>
            /\ last.data.access_token_expires_in = jwt_access_expiration_minutes * 60
            /\ last.data.access_token_expires_in = 900
            /\ last.data.refresh_token_expires_in = jwt_refresh_expiration_days * 86400
            /\ last.data.refresh_token_expires_in = 604800
            /\ \A r \in tokens : r.id = last.new =>
                  (r.expires_at - r.created_at) * 86400 = last.data.refresh_token_expires_in)
    /\ [][\A r \in tokens' : r.id \notin ids(tokens) =>
             /\ r.created_at = now
             /\ r.expires_at = now + jwt_refresh_expiration_days
             /\ last'.new = r.id /\ last'.ok]_vars

\* a rotation on a later day than the login that began the session
C26_Witness ==
    /\ issue_returned /\ last.op = "rotate" /\ now > 0
    /\ \E q \in tokens : q.created_at = 0 /\ q.token_hash = hash_token(last.tok)
    /\ first_by_id(tokens, last.new).expires_at > MaxNow


(* ---- rotations racing with other calls (SpecRotate, Spec) ---- *)
\* the step in which a rotate_refresh_token call returns
rotate_returns == last'.op = "rotate" /\ last' # last

\* C27: race treated as theft.  When two rotate_refresh_token calls on the
\* same refresh token ran concurrently (the call that returns now verified the
\* token before the other call, which has returned, had rotated it) and no
\* call on that token is left in flight, no token of the family has
\* revoked = false.
C27_RaceIsTheft ==
    [][(/\ rotate_returns
        /\ ~last'.stale
        /\ \E x \in rotated : x[1] = last'.tok
        /\ \A c \in Slots : calls'[c].op = "rotate" => calls'[c].tok # last'.tok)
       => \A r \in tokens' :
             r.family_id = first_by_hash(tokens', last'.tok).family_id => r.revoked]_vars


\* the return that reports a committed theft response for family f
cascade_returned(f) ==
    /\ rotate_returned /\ last.pc = "verify"
    /\ found(presented) /\ presented.revoked /\ presented.family_id = f

\* C28: a compromised family stays dead.  Once the theft-response cascade for
\* family F has committed, the next step leaves no row of F with
\* revoked = false, also when it is a step of another rotate_refresh_token
\* call on a token of F that was verified before the cascade.
C28_FamilyStaysDead ==
    [][\A f \in 1..MaxTokens :
          cascade_returned(f) => \A r \in tokens' : r.family_id = f => r.revoked]_vars


\* the step in which a register_user or authenticate call of user uid returns
\* success
session_begins(uid) ==
    \E c \in Slots :
        /\ calls[c].op \in {"register", "authenticate"} /\ calls[c].pc = "create"
        /\ calls[c].user = uid
        /\ calls'[c].pc = "idle" /\ nextTok' > nextTok

\* C29: logout-all versus in-flight rotation (SpecLogoutAll).  Once
\* revoke_all_user_tokens(user) has returned, the next step, unless it is the
\* success of a register or authenticate for that user, leaves the user with
\* no refresh-token row with revoked = false, also when it is a step of a
\* rotate_refresh_token call that started before logout-all returned.
C29_LogoutAllIsFinal ==
    [][(logout_all_returned /\ last.ok /\ ~session_begins(last.user))
       => \A r \in tokens' : r.user_id = last.user => r.revoked]_vars

\* C30: logout versus in-flight rotation (SpecRotate).  A rotate_refresh_token
\* call on t that returns after revoke_refresh_token(t) has returned success,
\* and that had verified t before that logout, does not return success, and
\* once it has returned no unrevoked token that descends from t exists.
C30_LogoutBeatsRotation ==
    [][(/\ rotate_returns
        /\ last'.tok \in loggedOut /\ ~last'.out
        /\ \A c \in Slots : calls'[c].op = "rotate" => calls'[c].tok # last'.tok)
       => /\ ~last'.ok
          /\ \A x \in rotated' : \A r \in tokens' :
                (x[1] = last'.tok /\ r.id = x[2]) => r.revoked]_vars

(* ---- the checks of the verify transaction (Spec) ---- *)
\* the step in which rotate_refresh_token returns the failure of its
\* verification
verify_refuses == rotate_returns /\ last'.pc = "verify"

\* C31: check precedence in rotation.  The checks are applied in the order
\* not-found, revoked, expired, user-inactive: a token that is revoked and also
\* expired, or whose user is also inactive, takes the compromise path with the
\* family cascade, and a token that is expired and whose user is inactive is
\* reported as expired.
C31_CheckPrecedence ==
    [][verify_refuses =>
          LET r == first_by_hash(tokens, last'.tok) IN
          /\ ~found(r) => last'.message = "Invalid refresh token"
          /\ (found(r) /\ r.revoked) =>
                /\ last'.message = "Token has been revoked. Please login again."
                /\ \A q \in tokens' : q.family_id = r.family_id => q.revoked
          /\ (found(r) /\ ~r.revoked /\ now > r.expires_at) =>
                last'.message = "Refresh token has expired"
          /\ (found(r) /\ ~r.revoked /\ ~(now > r.expires_at)) =>
                last'.message = "User account is disabled"]_vars

\* a revoked token was presented after its expiry and the cascade, stamped
\* after that expiry, hit an unrevoked token of its family
C31_Witness ==
    /\ rotate_returned /\ last.pc = "verify"
    /\ found(presented) /\ presented.revoked
    /\ last.message = "Token has been revoked. Please login again."
    /\ \E q \in last.before :
          /\ q.family_id = presented.family_id /\ ~q.revoked
          /\ \E r \in tokens : r.id = q.id /\ r.revoked
                                 /\ r.revoked_at > presented.expires_at

\* C32: a failed rotation leaves the store unchanged.  A rotate_refresh_token
\* call that fails because the token is unknown, expired, or owned by an
\* inactive user changes no refresh-token row and no user row (an expiry is
\* not written as a revoked flag) and creates no new token.
C32_FailedRotationFrame ==
    [][(/\ verify_refuses
        /\ last'.message \in {"Invalid refresh token", "Refresh token has expired",
                              "User account is disabled"})
       => /\ ~last'.ok
          /\ tokens' = tokens /\ users' = users /\ nextTok' = nextTok
          /\ calls' = calls]_vars

\* an expired token was refused and its row is still there, not revoked
C32_Witness ==
    /\ rotate_returned /\ last.pc = "verify" /\ ~last.ok
    /\ last.message = "Refresh token has expired"
    /\ found(presented) /\ presented \in tokens /\ ~presented.revoked
    /\ presented.revoked_at = NULL

\* C33: registration is all-or-nothing (SpecRegister).  register_user returns
\* success if and only if it created a new user row together with that user's
\* first refresh token; a call that returns failure, a storage failure while
\* creating the refresh token included, leaves no user row of its own behind.
C33_RegistrationAtomic ==
    /\ (register_returned /\ last.ok) =>
          /\ \E u \in users : u.id = last.user /\ u.email = last.email
          /\ \E r \in tokens : r.id = last.new /\ r.user_id = last.user
    /\ (register_returned /\ ~last.ok) =>
          ~\E u \in users : u.id = last.user

\* C34: revocation bookkeeping.  In every reachable state a refresh-token row
\* has revoked_at = null exactly when revoked = false, and every step that
\* sets revoked = true on a row (rotation, logout, logout-all, family
\* cascade) sets its revoked_at, to the time of the step, in that same step.
C34_RevocationBookkeeping ==
    /\ [](\A r \in tokens : (r.revoked_at = NULL) <=> ~r.revoked)
    /\ [][\A r \in tokens : \A q \in tokens' :
             (q.id = r.id /\ ~r.revoked /\ q.revoked) => q.revoked_at = now]_vars

\* a token revoked on a later day than its creation next to an unrevoked one
C34_Witness ==
    \E r, q \in tokens :
        /\ r.revoked /\ r.revoked_at > r.created_at
        /\ ~q.revoked /\ q.revoked_at = NULL

(* ---- signing in again (SpecLogin) ---- *)
\* the step in which an authenticate call returns
authenticate_returns == last'.op = "authenticate" /\ last' # last

\* C35: re-login is always possible.  After any sequence of rotations,
\* logouts, logout-alls, theft cascades and purges, an authenticate call of an
\* active user with the password of the registration is not refused (storage
\* errors aside), and when it returns success to a user who is still active
\* it has inserted an unrevoked refresh token in a family no earlier row
\* belongs to, which the verification of a rotation accepts.
C35_ReloginPossible ==
    [][authenticate_returns =>
          /\ (last'.gate /\ last'.cause # "storage error") => last'.ok
          /\ (last'.ok /\ user_active(users', last'.user)) =>
                /\ \E r \in tokens' :
                      /\ r.id = last'.new /\ r.user_id = last'.user /\ ~r.revoked
                      /\ \A q \in tokens : q.family_id # r.family_id
                /\ verify_refresh_token(tokens', users', last'.new, now').valid]_vars

\* a login went through although every earlier token of the user, two of one
\* family among them, was revoked, and its token passes verification
C35_Witness ==
    /\ authenticate_returned /\ last.ok
    /\ last.before # {}
    /\ \A q \in last.before : q.user_id = last.user /\ q.revoked
    /\ \E q, r \in last.before : q.id < r.id /\ q.family_id = r.family_id
                                  /\ q.revoked_at <= r.revoked_at
    /\ verify_refresh_token(tokens, users, last.new, now).valid

(* ---- access tokens and the refresh-token store (SpecGate) ---- *)
\* C36: access tokens are independent of refresh-token state.  Whether
\* require_auth accepts an access token depends only on its signature and
\* expiry: no step that leaves the clock alone, a logout, logout-all or theft
\* cascade included, changes the answer of require_auth to any header, and a
\* request with a server-signed, unexpired token is let through whatever the
\* refresh tokens of its user are.
C36_AccessIndependent ==
    /\ [][now' = now =>
             \A h \in Headers : (require_auth(h, now))' = require_auth(h, now)]_vars
    /\ [](guarded_returned =>
             (last.status # 401 <=> authentic(last.header, last.at)))

\* a request was let through on an access token whose user had refresh tokens,
\* all of them revoked
C36_Witness ==
    /\ guarded_returned /\ last.status = 200
    /\ \E r \in last.before : r.user_id = last.user
    /\ \A r \in last.before : r.user_id = last.user => r.revoked

====
